---- MODULE Spec2Model ----
(***************************************************************************)
(* Model of the TrueNAS websocket session client of jbod-web (jbod.js):    *)
(* setupConnection, serverStatusAPI, wsAuthenticate, wsAuthenticateCallback*)
(* and updateStatusIcon.  A WebSocket is a record holding its readyState,  *)
(* the handlers currently bound to onmessage / onclose, and the frames the *)
(* client has sent on it.  Server frames are JSON objects, modelled as     *)
(* records whose DOMAIN is the set of the object's own properties.         *)
(***************************************************************************)
EXTENDS Integers, Sequences, FiniteSets, TLC

\* ------------------------------------------------------------------ bounds
MaxChannels == 6    \* WebSockets created in one behaviour
MaxFrames   == 5    \* frames the server delivers on one WebSocket

\* ------------------------------------------------------- program constants
MaxSetupCalls == 1  \* the page template calls setupConnection once
RetryLimit    == 3  \* "if (connObj.retries <= 3)"

\* ------------------------------------------------------------ JSON values
\* JSON true / false / a number are kept apart from JSON strings by a "#".
JTrue  == "#true"
JFalse == "#false"
JNum   == "#42"
JUndefined == "#undefined"

IsString(v) == v \notin {JTrue, JFalse, JNum, JUndefined}

\* JavaScript truthiness of a value (false, undefined and "" are falsy).
Truthy(v) == v \notin {JFalse, JUndefined, ""}

\* obj.hasOwnProperty(p)
hasOwnProperty(obj, p) == p \in DOMAIN obj

\* obj.p: undefined when the object has no such property
Prop(obj, p) == IF hasOwnProperty(obj, p) THEN obj[p] ELSE JUndefined

\* obj.p used as a condition
TruthyProp(obj, p) == Truthy(Prop(obj, p))

\* JSON.stringify of {id: id, ...rest}: an undefined id is left out
WithId(id, rest) == IF id = JUndefined THEN rest ELSE [id |-> id] @@ rest

\* ------------------------------------------------ the handlers' decisions
\* serverStatusAPI, hostWS.onmessage: recvObj.msg == "connected"
IsConnected_any(recvObj) == TRUE

IsConnected_msg(recvObj) == hasOwnProperty(recvObj, "msg")

IsConnected(recvObj) == Prop(recvObj, "msg") = "connected"

\* serverStatusAPI, hostWS.onmessage: connectionObj.session = recvObj.session
BindSession_first(connectionObj, recvObj) ==
    [connectionObj EXCEPT !.session =
        IF Truthy(@) THEN @ ELSE Prop(recvObj, "session")]

BindSession(connectionObj, recvObj) ==
    [connectionObj EXCEPT !.session = Prop(recvObj, "session")]

\* wsAuthenticateCallback, ws.onmessage: connObj.retries = 0
ResetRetries_keep(connObj) == connObj

ResetRetries(connObj) == [connObj EXCEPT !.retries = 0]

\* wsAuthenticateCallback, ws.onclose: connObj.retries <= 3
ShouldRetry_strict(connObj) == connObj.retries < RetryLimit

ShouldRetry(connObj) == connObj.retries <= RetryLimit

\* wsAuthenticateCallback, ws.onclose: connObj.retries++ before reconnecting
Retrying_clear(connObj) ==
    [connObj EXCEPT !.retries = @ + 1, !.session = ""]

Retrying(connObj) == [connObj EXCEPT !.retries = @ + 1]

\* wsAuthenticate, ws.onmessage: if (authRecvObj.result)
AuthSucceeded_present(authRecvObj) == hasOwnProperty(authRecvObj, "result")

AuthSucceeded(authRecvObj) == TruthyProp(authRecvObj, "result")

\* String.prototype.toUpperCase on the status strings of the protocol.
toUpperCase_ident(s) == s

toUpperCase(s) ==
    CASE s = "shutting_down" -> "SHUTTING_DOWN"
      [] s = "booting"       -> "BOOTING"
      [] s = "ready"         -> "READY"
      [] s = "system"        -> "SYSTEM"
      [] OTHER               -> s

\* ------------------------------------------------------------- the inputs
ServerIps == {"10.0.0.2"}
ApiKeys   == {"k1", "k2"}
Tokens    == {"s1", "s2"}

\* Frames the remote host may deliver.
ServerFrames ==
    {[msg |-> "connected", session |-> t] : t \in Tokens}
    \cup {[result |-> r] : r \in {JTrue, JFalse, "READY"}}
    \cup {[msg |-> "ready"],
          [msg |-> "ready", id |-> "system"],
          [msg |-> "changed", id |-> "shutting_down"],
          [msg |-> "changed", id |-> "BOOTING"],
          [msg |-> "changed"],
          [msg |-> "changed", id |-> JNum],
          [collection |-> "system"]}

\* ------------------------------------------------- frames the client sends
ConnectFrame == [msg |-> "connect", version |-> "1", support |-> <<"1">>]

AuthFrame_swapped(connectionObj) ==
    WithId(connectionObj.api_key,
           [msg |-> "method", method |-> "auth.login_with_api_key",
            params |-> <<connectionObj.session>>])

AuthFrame(connectionObj) ==
    WithId(connectionObj.session,
           [msg |-> "method", method |-> "auth.login_with_api_key",
            params |-> <<connectionObj.api_key>>])

QueryFrame(connObj) ==
    WithId(connObj.session, [msg |-> "method", method |-> "system.state"])

SubFrame_noname(connObj) ==
    WithId(connObj.session, [msg |-> "sub"])

SubFrame(connObj) ==
    WithId(connObj.session, [name |-> "system", msg |-> "sub"])

\* the kinds of client frame, told apart by what the server reads in them
IsConnect(f) == f.msg = "connect"
IsAuth(f)    == f.msg = "method" /\ f.method = "auth.login_with_api_key"
IsQuery(f)   == f.msg = "method" /\ f.method = "system.state"
IsSub(f)     == f.msg = "sub"

\* ------------------------------------------------------------------- state
VARIABLES
    conns,      \* the connection objects made by setupConnection
    chans,      \* every WebSocket created so far, in creation order
    hostIcon,   \* the #hostConnStatus element that updateStatusIcon writes
    hist,       \* per connection object: the api_key setupConnection was given,
                \* the close events, and those answered by DEAD, since the last
                \* frame handled by wsAuthenticateCallback's onmessage, the
                \* value of retries that frame found, the token of the socket
                \* closed last, and whether ws.onclose has given up
    last,       \* the event handled by the last step
    poll,       \* pollConsoleStatus: the #controllerConnStatus element, the
                \* requests in flight, the timeouts pending, the requests
                \* issued so far and what the last callback did
    cal,        \* checkCalibrationStatus: the global cntAttempts and, per
                \* fan, the position of its chain of status requests
    chart       \* edit_setpoints.js: dataObj (temp and pwm, the arrays the
                \* chart shows) and what the last callback did

vars == <<conns, chans, hostIcon, hist, last, poll, cal, chart>>

\* the state of the websocket client, and the state of the page's pollers
host == <<conns, chans, hostIcon, hist, last>>
page == <<poll, cal, chart>>

NoFrame == [none |-> "none"]

\* an event and what its handler did: the frames it sent on the socket and
\* the statuses it passed to updateStatusIcon, in order
Event(kind, c, handler, frame, sent, notified) ==
    [kind |-> kind, chan |-> c, handler |-> handler, frame |-> frame,
     sent |-> sent, notified |-> notified]

\* the frames of the end-to-end scenario, in the order the server sends them
Scenario ==
    <<[msg |-> "connected", session |-> "s1"],
      [result |-> JTrue],
      [result |-> "READY"],
      [msg |-> "ready"],
      [msg |-> "changed", id |-> "shutting_down"]>>

\* what the server has done on a socket: the open signal, a connected frame
\* (and its session), a truthy result after it, a result-bearing frame after
\* that; authFail: the first frame after the connected frame was not a truthy
\* result; fed: a frame was delivered after the truthy result; script: how
\* many frames of Scenario the frames delivered so far are, when they are
\* exactly its first ones (-1 when they are not)
NothingSeen == [open |-> FALSE, connected |-> FALSE, token |-> "",
                authOk |-> FALSE, authFail |-> FALSE, result |-> FALSE,
                fed |-> FALSE, script |-> 0]

\* new WebSocket(...) with the three handlers serverStatusAPI binds
NewSocket_retry(owner) ==
    [owner      |-> owner,
     readyState |-> "CONNECTING",
     onmessage  |-> "serverStatusAPI",
     onclose    |-> "wsAuthenticateCallback",
     sent       |-> <<>>,
     notes      |-> <<>>,
     nrecv      |-> 0,
     seen       |-> NothingSeen]

NewSocket(owner) ==
    [owner      |-> owner,
     readyState |-> "CONNECTING",
     onmessage  |-> "serverStatusAPI",
     onclose    |-> "serverStatusAPI",
     sent       |-> <<>>,
     notes      |-> <<>>,
     nrecv      |-> 0,
     seen       |-> NothingSeen]

\* updateStatusIcon: the icon class, the disconnected mark and the title
updateStatusIcon(statusMsg) ==
    [className |->
        CASE statusMsg = "READY"         -> "fa fa-solid fa-check-circle"
          [] statusMsg = "SHUTTING_DOWN" -> "fa fa-solid fa-arrow-circle-down"
          [] statusMsg = "BOOTING"       -> "fa fa-solid fa-arrow-circle-up"
          [] statusMsg = "ERROR"         -> "fa fa-solid fa-question-circle"
          [] OTHER                       -> "fa fa-minus-circle",
     disconnected |-> statusMsg # "READY",
     title |-> statusMsg]

\* ------------------------------------------------------ the page's pollers
Fans          == {1, 2}     \* the fans that have a calibration dialog
AttemptsLimit == 15         \* "cntAttempts <= 15"

\* the #controllerConnStatus element as the template renders it
ControllerIcon(serial) ==
    [className |-> IF serial THEN "fa fa-solid fa-check-circle"
                             ELSE "fa fa-solid fa-minus-circle",
     disconnected |-> ~serial,
     title |-> ""]

\* a poller callback and what it did: the response it was given, the
\* disconnected mark it found and the statuses it passed to updateStatusIcon
PollEvent(kind, result, before, notified) ==
    [kind |-> kind, result |-> result, before |-> before, notified |-> notified]

\* the page before the ready handler has called pollConsoleStatus
PollIdle(serial) ==
    [icon |-> ControllerIcon(serial), inflight |-> 0, timers |-> 0,
     issued |-> 0, event |-> PollEvent("none", NoFrame, ~serial, <<>>)]

\* a fan whose calibration is not being watched; requests: the status
\* requests of its last chain, clean: every response of that chain was a 200
\* with status 2, fromZero: cntAttempts was 0 when the chain began, finished:
\* the chain ended in the completion callback that resets cntAttempts
NoChain == [phase |-> "idle", requests |-> 0, clean |-> TRUE,
            fromZero |-> TRUE, finished |-> FALSE]

CalIdle == [cntAttempts |-> 0, chain |-> [f \in Fans |-> NoChain]]

\* a callback of the setpoint page and what it did: the index and value it
\* was given and whether it wrote the value
ChartEvent(kind, index, value, written) ==
    [kind |-> kind, index |-> index, value |-> value, written |-> written]

\* the setpoint page before loadSetpointData has answered
NoChart == [temp |-> <<>>, pwm |-> <<>>,
            event |-> ChartEvent("none", 0, 0, FALSE)]

\* the websocket client before setupConnection
InitHost ==
    /\ conns = <<>>
    /\ chans = <<>>
    /\ hostIcon = [className |-> "fa fa-solid fa-minus-circle",
                   disconnected |-> TRUE, title |-> ""]
    /\ hist = <<>>
    /\ last = Event("init", 0, "none", NoFrame, <<>>, <<>>)

Init ==
    /\ InitHost
    /\ poll = PollIdle(FALSE)
    /\ cal = CalIdle
    /\ chart = NoChart

\* ------------------------------------------------------------ the handlers
\* the connection object the handlers of socket c close over
Owner_shared(c) == 1

Owner(c) == chans[c].owner

\* what the server has delivered on a socket so far, stage by stage
SeenAfter(seen, f) ==
    LET isConnected == Prop(f, "msg") = "connected"
        first       == seen.open /\ ~seen.connected /\ isConnected
        authReply   == seen.connected /\ ~seen.authOk /\ ~seen.authFail
    IN [seen EXCEPT
          !.connected = @ \/ first,
          !.token     = IF first THEN Prop(f, "session") ELSE @,
          !.authOk    = @ \/ (seen.connected /\ TruthyProp(f, "result")),
          !.authFail  = @ \/ (authReply /\ ~TruthyProp(f, "result")),
          !.result    = @ \/ (seen.authOk /\ hasOwnProperty(f, "result")),
          !.fed       = @ \/ seen.authOk,
          !.script    = IF /\ @ >= 0 /\ @ < Len(Scenario)
                           /\ f = Scenario[@ + 1]
                        THEN @ + 1 ELSE -1]

\* the socket after its handler for frame f has sent the frames out and
\* notified the statuses notes
Handled(ws, f, out, notes) ==
    [ws EXCEPT !.nrecv = @ + 1, !.seen = SeenAfter(@, f),
               !.sent = @ \o out, !.notes = @ \o notes]

\* a closed socket delivers no further event; its buffers are released
Closed(ws) ==
    [ws EXCEPT !.readyState = "CLOSED", !.sent = <<>>, !.notes = <<>>,
               !.nrecv = 0, !.seen = NothingSeen]

\* the icon after the statuses notes were passed to updateStatusIcon in turn
IconAfter(icon, notes) ==
    IF notes = <<>> THEN icon ELSE updateStatusIcon(notes[Len(notes)])

CanDeliver(c) ==
    /\ c \in 1..Len(chans)
    /\ chans[c].readyState = "OPEN"
    /\ chans[c].nrecv < MaxFrames

CanClose(c) ==
    /\ c \in 1..Len(chans)
    /\ chans[c].readyState \in {"CONNECTING", "OPEN"}

\* the connection object, and its history, that setupConnection makes
NewConnection(server_ip, api_key) ==
    [api_key |-> api_key, ip |-> server_ip, session |-> "", retries |-> 0]

NewHistory(api_key) ==
    [api_key |-> api_key, closes |-> 0, deads |-> 0, resetFrom |-> 0,
     lastToken |-> "", gaveUp |-> FALSE]

\* setupConnection(server_ip, api_key), with the serverStatusAPI call it makes
setupConnection(server_ip, api_key) ==
    /\ Len(conns) < MaxSetupCalls
    /\ Len(chans) < MaxChannels
    /\ conns' = Append(conns, NewConnection(server_ip, api_key))
    /\ chans' = Append(chans, NewSocket(Len(conns) + 1))
    /\ hist' = Append(hist, NewHistory(api_key))
    /\ last' = Event("setup", Len(chans) + 1, "setupConnection", NoFrame, <<>>, <<>>)
    /\ UNCHANGED <<hostIcon, page>>

\* hostWS.onopen: send the connect frame
hostWS_onopen(c) ==
    /\ c \in 1..Len(chans)
    /\ chans[c].readyState = "CONNECTING"
    /\ chans' = [chans EXCEPT ![c] =
                   [@ EXCEPT !.readyState = "OPEN", !.seen.open = TRUE,
                             !.sent = Append(@, ConnectFrame)]]
    /\ last' = Event("open", c, "serverStatusAPI", NoFrame, <<ConnectFrame>>, <<>>)
    /\ UNCHANGED <<conns, hostIcon, hist, page>>

\* hostWS.onmessage as bound by serverStatusAPI; on a connected frame it
\* calls wsAuthenticate, which sends the auth request and rebinds onmessage
hostWS_onmessage(c, recvObj) ==
    /\ CanDeliver(c)
    /\ chans[c].onmessage = "serverStatusAPI"
    /\ LET connectionObj == IF IsConnected(recvObj)
                            THEN BindSession(conns[Owner(c)], recvObj)
                            ELSE conns[Owner(c)]
           out == IF IsConnected(recvObj)
                  THEN <<AuthFrame(connectionObj)>> ELSE <<>>
       IN /\ conns' = [conns EXCEPT ![Owner(c)] = connectionObj]
          /\ chans' = [chans EXCEPT ![c] =
                 [Handled(@, recvObj, out, <<>>) EXCEPT !.onmessage =
                     IF IsConnected(recvObj) THEN "wsAuthenticate" ELSE @]]
          /\ last' = Event("message", c, "serverStatusAPI", recvObj, out, <<>>)
    /\ UNCHANGED <<hostIcon, hist, page>>

\* ws.onmessage as bound by wsAuthenticate; on success it calls
\* wsAuthenticateCallback, which sends the query and rebinds both handlers
wsAuthenticate_onmessage(c, authRecvObj) ==
    /\ CanDeliver(c)
    /\ chans[c].onmessage = "wsAuthenticate"
    /\ LET ok    == AuthSucceeded(authRecvObj)
           out   == IF ok THEN <<QueryFrame(conns[Owner(c)])>> ELSE <<>>
           notes == IF ok THEN <<>> ELSE <<"DEAD">>
       IN /\ chans' = [chans EXCEPT ![c] =
                 [Handled(@, authRecvObj, out, notes) EXCEPT
                     !.onmessage = IF ok THEN "wsAuthenticateCallback" ELSE @,
                     !.onclose   = IF ok THEN "wsAuthenticateCallback" ELSE @]]
          /\ hostIcon' = IconAfter(hostIcon, notes)
          /\ last' = Event("message", c, "wsAuthenticate", authRecvObj, out, notes)
    /\ UNCHANGED <<conns, hist, page>>

\* the status, if any, that wsAuthenticateCallback's onmessage notifies
UpdateNotes_ready(updateRecv) ==
    IF hasOwnProperty(updateRecv, "result")
    THEN <<updateRecv.result>>
    ELSE IF /\ hasOwnProperty(updateRecv, "msg")
            /\ hasOwnProperty(updateRecv, "id")
            /\ IsString(updateRecv.id)
         THEN <<toUpperCase(updateRecv.id)>>
         ELSE <<>>

UpdateNotes_fallback(updateRecv) ==
    IF hasOwnProperty(updateRecv, "result")
    THEN <<updateRecv.result>>
    ELSE IF /\ hasOwnProperty(updateRecv, "msg")
            /\ updateRecv.msg # "ready"
         THEN IF hasOwnProperty(updateRecv, "id")
              THEN IF IsString(updateRecv.id)
                   THEN <<toUpperCase(updateRecv.id)>> ELSE <<>>
              ELSE <<toUpperCase(updateRecv.msg)>>
         ELSE <<>>

UpdateNotes_raw(updateRecv) ==
    IF hasOwnProperty(updateRecv, "result")
    THEN <<updateRecv.result>>
    ELSE IF /\ hasOwnProperty(updateRecv, "msg")
            /\ updateRecv.msg # "ready"
            /\ hasOwnProperty(updateRecv, "id")
            /\ IsString(updateRecv.id)
         THEN <<updateRecv.id>>
         ELSE <<>>

UpdateNotes(updateRecv) ==
    IF hasOwnProperty(updateRecv, "result")
    THEN <<updateRecv.result>>
    ELSE IF /\ hasOwnProperty(updateRecv, "msg")
            /\ updateRecv.msg # "ready"
            /\ hasOwnProperty(updateRecv, "id")
            /\ IsString(updateRecv.id)    \* toUpperCase throws otherwise
         THEN <<toUpperCase(updateRecv.id)>>
         ELSE <<>>

\* ws.onmessage as bound by wsAuthenticateCallback
wsAuthenticateCallback_onmessage(c, updateRecv) ==
    /\ CanDeliver(c)
    /\ chans[c].onmessage = "wsAuthenticateCallback"
    /\ LET connObj == ResetRetries(conns[Owner(c)])
           notes   == UpdateNotes(updateRecv)
           out     == IF hasOwnProperty(updateRecv, "result")
                      THEN <<SubFrame(connObj)>> ELSE <<>>
       IN /\ conns' = [conns EXCEPT ![Owner(c)] = connObj]
          /\ chans' = [chans EXCEPT ![c] = Handled(@, updateRecv, out, notes)]
          /\ hostIcon' = IconAfter(hostIcon, notes)
          /\ last' = Event("message", c, "wsAuthenticateCallback", updateRecv,
                           out, notes)
    /\ hist' = [hist EXCEPT ![Owner(c)].closes = 0, ![Owner(c)].deads = 0,
                            ![Owner(c)].resetFrom = conns[Owner(c)].retries]
    /\ UNCHANGED page

\* the sockets after hostWS.onclose: no serverStatusAPI call
CloseEarly_reconnect(c) ==
    IF Len(chans) < MaxChannels
    THEN Append([chans EXCEPT ![c] = Closed(@)], NewSocket(Owner(c)))
    ELSE [chans EXCEPT ![c] = Closed(@)]

CloseEarly(c) == [chans EXCEPT ![c] = Closed(@)]

\* hostWS.onclose as bound by serverStatusAPI
hostWS_onclose(c) ==
    /\ CanClose(c)
    /\ chans[c].onclose = "serverStatusAPI"
    /\ chans' = CloseEarly(c)
    /\ hostIcon' = updateStatusIcon("DEAD")
    /\ hist' = [hist EXCEPT ![Owner(c)].closes = @ + 1,
                            ![Owner(c)].deads = @ + 1]
    /\ last' = Event("close", c, "serverStatusAPI", NoFrame, <<>>, <<"DEAD">>)
    /\ UNCHANGED <<conns, page>>

\* the sockets after ws.onclose gave up: no serverStatusAPI call
GiveUp_reopen(c) ==
    Append([chans EXCEPT ![c] = Closed(@)], NewSocket(Owner(c)))

GiveUp(c) == [chans EXCEPT ![c] = Closed(@)]

\* the sockets after ws.onclose called serverStatusAPI(connObj)
Reconnect_twice(c) ==
    Append(Append([chans EXCEPT ![c] = Closed(@)], NewSocket(Owner(c))),
           NewSocket(Owner(c)))

Reconnect(c) ==
    Append([chans EXCEPT ![c] = Closed(@)], NewSocket(Owner(c)))

\* ws.onclose as bound by wsAuthenticateCallback
wsAuthenticateCallback_onclose(c) ==
    /\ CanClose(c)
    /\ chans[c].onclose = "wsAuthenticateCallback"
    /\ IF ShouldRetry(conns[Owner(c)])
       THEN /\ Len(chans) < MaxChannels
            /\ conns' = [conns EXCEPT ![Owner(c)] = Retrying(@)]
            /\ chans' = Reconnect(c)
            /\ hist' = [hist EXCEPT ![Owner(c)].closes = @ + 1,
                                    ![Owner(c)].lastToken = chans[c].seen.token]
            /\ last' = Event("close", c, "wsAuthenticateCallback", NoFrame,
                             <<>>, <<>>)
            /\ UNCHANGED hostIcon
       ELSE /\ conns' = [conns EXCEPT ![Owner(c)].retries = 0]
            /\ chans' = GiveUp(c)
            /\ hostIcon' = updateStatusIcon("DEAD")
            /\ hist' = [hist EXCEPT ![Owner(c)].closes = @ + 1,
                                    ![Owner(c)].deads = @ + 1,
                                    ![Owner(c)].gaveUp = TRUE]
            /\ last' = Event("close", c, "wsAuthenticateCallback", NoFrame,
                             <<>>, <<"DEAD">>)
    /\ UNCHANGED page

Next ==
    \/ \E ip \in ServerIps, key \in ApiKeys : setupConnection(ip, key)
    \/ \E c \in 1..MaxChannels : hostWS_onopen(c)
    \/ \E c \in 1..MaxChannels, f \in ServerFrames : hostWS_onmessage(c, f)
    \/ \E c \in 1..MaxChannels, f \in ServerFrames : wsAuthenticate_onmessage(c, f)
    \/ \E c \in 1..MaxChannels, f \in ServerFrames : wsAuthenticateCallback_onmessage(c, f)
    \/ \E c \in 1..MaxChannels : hostWS_onclose(c)
    \/ \E c \in 1..MaxChannels : wsAuthenticateCallback_onclose(c)

Spec == Init /\ [][Next]_vars

\* ---------------------------------------------------- pollConsoleStatus
MaxPolls == 12  \* requests pollConsoleStatus issues in one behaviour

\* the bodies the controller's alive endpoint answers with
PollResults == {[alive |-> JTrue], [alive |-> JFalse]}

\* success callback: the status it passes to updateStatusIcon, if any
PollNotes_always(disconnected, result) ==
    IF TruthyProp(result, "alive") THEN <<"READY">> ELSE <<"DEAD">>

PollNotes(disconnected, result) ==
    IF disconnected /\ TruthyProp(result, "alive")
    THEN <<"READY">>
    ELSE IF ~disconnected /\ ~TruthyProp(result, "alive")
         THEN <<"DEAD">>
         ELSE <<>>

\* the page with either rendering of the controller element
InitPoll ==
    /\ InitHost
    /\ poll \in {PollIdle(serial) : serial \in BOOLEAN}
    /\ cal = CalIdle
    /\ chart = NoChart

\* the ready handler's call of pollConsoleStatus: the first request
pollConsoleStatus_ready ==
    /\ poll.issued = 0
    /\ poll' = [poll EXCEPT !.inflight = @ + 1, !.issued = @ + 1,
                            !.event = PollEvent("ready", NoFrame,
                                                poll.icon.disconnected, <<>>)]
    /\ UNCHANGED <<host, cal, chart>>

\* the success callback, with the setTimeout that ends it
pollConsoleStatus_success(result) ==
    /\ poll.inflight > 0
    /\ LET notes == PollNotes(poll.icon.disconnected, result)
       IN poll' = [poll EXCEPT !.inflight = @ - 1,
                               !.timers = @ + 1,
                               !.icon = IconAfter(@, notes),
                               !.event = PollEvent("success", result,
                                             poll.icon.disconnected, notes)]
    /\ UNCHANGED <<host, cal, chart>>

\* the request fails: $.ajax was given no error callback
pollConsoleStatus_failure ==
    /\ poll.inflight > 0
    /\ poll' = [poll EXCEPT !.inflight = @ - 1,
                            !.event = PollEvent("failure", NoFrame,
                                                poll.icon.disconnected, <<>>)]
    /\ UNCHANGED <<host, cal, chart>>

\* the timeout set by the success callback calls pollConsoleStatus again
pollConsoleStatus_timeout ==
    /\ poll.timers > 0
    /\ poll.issued < MaxPolls
    /\ poll' = [poll EXCEPT !.timers = @ - 1, !.inflight = @ + 1,
                            !.issued = @ + 1,
                            !.event = PollEvent("timeout", NoFrame,
                                                poll.icon.disconnected, <<>>)]
    /\ UNCHANGED <<host, cal, chart>>

NextPoll ==
    \/ pollConsoleStatus_ready
    \/ \E result \in PollResults : pollConsoleStatus_success(result)
    \/ pollConsoleStatus_failure
    \/ pollConsoleStatus_timeout

SpecPoll == InitPoll /\ [][NextPoll]_vars

\* ----------------------------------------------- checkCalibrationStatus
MaxStatusRequests == 19   \* status requests in one fan's chain

\* XHR.status and the status field of the body, for the responses that load
StatusResponses ==
    {[status |-> 200, body |-> [status |-> 2]],
     [status |-> 200, body |-> [status |-> 0]],
     [status |-> 500, body |-> NoFrame]}

\* load listener: calStatCode == 2 && cntAttempts <= 15
StillRunning(resp, cntAttempts) ==
    resp.body.status = 2 /\ cntAttempts <= AttemptsLimit

\* fanCalibrationHandler's animation completes: the first status request of
\* a chain for the fan
checkCalibrationStatus_first(fanId) ==
    /\ cal.chain[fanId].phase = "idle"
    /\ cal' = [cal EXCEPT !.chain[fanId] =
                 [phase |-> "request", requests |-> 1, clean |-> TRUE,
                  fromZero |-> cal.cntAttempts = 0, finished |-> FALSE]]
    /\ UNCHANGED <<host, poll, chart>>

\* the load listener of a status request
XHR_load(fanId, resp) ==
    /\ cal.chain[fanId].phase = "request"
    /\ IF resp.status = 200
       THEN IF StillRunning(resp, cal.cntAttempts)
            THEN cal' = [cal EXCEPT !.cntAttempts = @ + 1,
                                    !.chain[fanId].phase = "growing"]
            ELSE cal' = [cal EXCEPT !.chain[fanId].phase = "filling",
                                    !.chain[fanId].clean =
                                        @ /\ resp.body.status = 2]
       ELSE cal' = [cal EXCEPT !.chain[fanId].phase = "idle",
                               !.chain[fanId].clean = FALSE]
    /\ UNCHANGED <<host, poll, chart>>

\* the error listener of a status request: it only logs
XHR_error(fanId) ==
    /\ cal.chain[fanId].phase = "request"
    /\ cal' = [cal EXCEPT !.chain[fanId].phase = "idle",
                          !.chain[fanId].clean = FALSE]
    /\ UNCHANGED <<host, poll, chart>>

\* the animation of the still-running branch completes: the next request
checkCalibrationStatus_again(fanId) ==
    /\ cal.chain[fanId].phase = "growing"
    /\ cal.chain[fanId].requests < MaxStatusRequests
    /\ cal' = [cal EXCEPT !.chain[fanId].phase = "request",
                          !.chain[fanId].requests = @ + 1]
    /\ UNCHANGED <<host, poll, chart>>

\* the animation of the other branch completes: banner, hide, reset
calibration_complete(fanId) ==
    /\ cal.chain[fanId].phase = "filling"
    /\ cal' = [cal EXCEPT !.cntAttempts = 0,
                          !.chain[fanId].phase = "idle",
                          !.chain[fanId].finished = TRUE]
    /\ UNCHANGED <<host, poll, chart>>

NextCal ==
    \/ \E fanId \in Fans : checkCalibrationStatus_first(fanId)
    \/ \E fanId \in Fans : XHR_error(fanId)
    \/ \E fanId \in Fans, resp \in StatusResponses : XHR_load(fanId, resp)
    \/ \E fanId \in Fans : checkCalibrationStatus_again(fanId)
    \/ \E fanId \in Fans : calibration_complete(fanId)

SpecCal == Init /\ [][NextCal]_vars

\* ------------------------------------------------- the setpoint chart
MaxSetpoints == 3   \* setpoints of the fan
MaxPwm       == 3   \* the largest PWM value on the chart's y axis

PwmValues == 0..MaxPwm

\* seq[i] < seq[i+1] throughout
StrictlyIncreasing(seq) ==
    \A i \in 1..(Len(seq) - 1) : seq[i] < seq[i + 1]

\* the bodies /fan/setpoints answers with: one temp and one pwm per setpoint,
\* the temps in ascending order, the pwm values as they were saved
SetpointResponses ==
    UNION {{[temp |-> [i \in 1..n |-> 10 * i], pwm |-> p] :
               p \in [1..n -> PwmValues]} : n \in 0..MaxSetpoints}

\* arr[i] of a JavaScript array (indices from 0): <<the entry>>, or <<>>
\* for the undefined that an index out of range gives
ArrayAt(arr, i) == IF i + 1 \in 1..Len(arr) THEN <<arr[i + 1]>> ELSE <<>>

\* a >= b and a <= b in JavaScript: false when a is undefined
Gte(a, b) == a # <<>> /\ a[1] >= b
Lte(a, b) == a # <<>> /\ a[1] <= b

\* onDrag: neither "return false" is taken
DragAccepted_loose(obj, index, value) ==
    /\ ~(index > 0 /\ ArrayAt(obj.pwm, index - 1) # <<>>
                   /\ ArrayAt(obj.pwm, index - 1)[1] > value)
    /\ ~(index < Len(obj.temp) /\ ArrayAt(obj.pwm, index + 1) # <<>>
                               /\ ArrayAt(obj.pwm, index + 1)[1] < value)

DragAccepted(obj, index, value) ==
    /\ ~(index > 0 /\ Gte(ArrayAt(obj.pwm, index - 1), value))
    /\ ~(index < Len(obj.temp) /\ Lte(ArrayAt(obj.pwm, index + 1), value))

\* renderChart / updateChart: dataObj = responseData, and the chart shows it
renderChart(responseData) ==
    /\ chart.event.kind = "none"
    /\ chart' = [temp |-> responseData.temp, pwm |-> responseData.pwm,
                 event |-> ChartEvent("render", 0, 0, FALSE)]
    /\ UNCHANGED <<host, poll, cal>>

updateChart(responseData) ==
    /\ chart.event.kind # "none"
    /\ chart' = [temp |-> responseData.temp, pwm |-> responseData.pwm,
                 event |-> ChartEvent("update", 0, 0, FALSE)]
    /\ UNCHANGED <<host, poll, cal>>

\* dragData.onDrag(e, datasetIndex, index, value) on a bar of the chart
onDrag(index, value) ==
    /\ chart.event.kind # "none"
    /\ index \in 0..(Len(chart.pwm) - 1)
    /\ LET ok == DragAccepted(chart, index, value)
       IN chart' = [chart EXCEPT
                      !.pwm = IF ok THEN [@ EXCEPT ![index + 1] = value] ELSE @,
                      !.event = ChartEvent("drag", index, value, ok)]
    /\ UNCHANGED <<host, poll, cal>>

NextChart ==
    \/ \E responseData \in SetpointResponses : renderChart(responseData)
    \/ \E responseData \in SetpointResponses : updateChart(responseData)
    \/ \E index \in 0..(MaxSetpoints - 1), value \in PwmValues :
           onDrag(index, value)

SpecChart == Init /\ [][NextChart]_vars

Sessions == 1..Len(conns)
Sockets  == 1..Len(chans)

\* ------------------------------------------- two connection objects at once
ChannelsOfTwo == 3  \* WebSockets created for the two connection objects
FramesOfTwo   == 3  \* frames the server delivers on one of their WebSockets

\* the frames the two hosts deliver
FramesForTwo ==
    {[msg |-> "connected", session |-> t] : t \in Tokens}
    \cup {[result |-> JTrue], [result |-> JFalse]}

\* the page after setupConnection was called twice, for two hosts
InitTwo ==
    /\ conns = <<NewConnection("10.0.0.2", "k1"), NewConnection("10.0.0.3", "k2")>>
    /\ chans = <<NewSocket(1), NewSocket(2)>>
    /\ hostIcon = [className |-> "fa fa-solid fa-minus-circle",
                   disconnected |-> TRUE, title |-> ""]
    /\ hist = <<NewHistory("k1"), NewHistory("k2")>>
    /\ last = Event("setup", 2, "setupConnection", NoFrame, <<>>, <<>>)
    /\ poll = PollIdle(FALSE)
    /\ cal = CalIdle
    /\ chart = NoChart

\* socket c may be delivered one more frame
FrameDue(c) == c \in Sockets /\ chans[c].nrecv < FramesOfTwo

NextTwo ==
    \/ \E c \in 1..ChannelsOfTwo : hostWS_onopen(c)
    \/ \E c \in 1..ChannelsOfTwo, f \in FramesForTwo :
           FrameDue(c) /\ hostWS_onmessage(c, f)
    \/ \E c \in 1..ChannelsOfTwo, f \in FramesForTwo :
           FrameDue(c) /\ wsAuthenticate_onmessage(c, f)
    \/ \E c \in 1..ChannelsOfTwo, f \in FramesForTwo :
           FrameDue(c) /\ wsAuthenticateCallback_onmessage(c, f)
    \/ \E c \in 1..ChannelsOfTwo : hostWS_onclose(c)
    \/ \E c \in 1..ChannelsOfTwo :
           Len(chans) < ChannelsOfTwo /\ wsAuthenticateCallback_onclose(c)

SpecTwo == InitTwo /\ [][NextTwo]_vars

\* the kind of a client frame
KindOf(f) ==
    CASE IsConnect(f) -> "connect"
      [] IsAuth(f)    -> "auth"
      [] IsQuery(f)   -> "query"
      [] IsSub(f)     -> "sub"
      [] OTHER        -> "other"

\* the number of frames of a kind in a sequence of client frames
Count(seq, kind) == Cardinality({i \in 1..Len(seq) : KindOf(seq[i]) = kind})

\* the last step delivered a frame to the onmessage handler named h
Delivered(h) == last.kind = "message" /\ last.handler = h

\* the last step was a close event handled by the onclose handler named h
ClosedBy(h) == last.kind = "close" /\ last.handler = h

\* the socket of the last event, and its connection object
LastOwner == chans[last.chan].owner

\* ---------------------------------------------------------------- claims

\* C1: starting from retries = 0, four consecutive close events with no
\* frame handled after authentication in between yield exactly one DEAD
\* notification between them, and then the session has no socket left to
\* reconnect on.
C1_RetryBound ==
    \A s \in Sessions :
        hist[s].closes = 4 =>
            /\ hist[s].deads = 1
            /\ \A c \in Sockets :
                   chans[c].owner = s => chans[c].readyState = "CLOSED"

\* C2: a frame handled after authentication sets retries to 0, whatever it
\* was (2 after two reconnections); each of the next three close events of
\* an authenticated socket is then answered by one new socket and no DEAD.
C2_RetryCounterReset ==
    /\ Delivered("wsAuthenticateCallback") => conns[LastOwner].retries = 0
    /\ (ClosedBy("wsAuthenticateCallback") /\ hist[LastOwner].closes <= 3) =>
           /\ last.notified = <<>>
           /\ Len(chans) = last.chan + 1
           /\ chans[Len(chans)].owner = LastOwner
           /\ chans[Len(chans)].readyState = "CONNECTING"
           /\ conns[LastOwner].retries = hist[LastOwner].closes

C2_Witness ==
    /\ ClosedBy("wsAuthenticateCallback")
    /\ hist[LastOwner].resetFrom = 2
    /\ hist[LastOwner].closes = 3
    /\ chans[Len(chans)].readyState = "CONNECTING"

\* C3: retries is always between 0 and 3.
C3_RetryCountBounded ==
    \A s \in Sessions : conns[s].retries \in 0..RetryLimit

\* C4: a close event at any stage is answered by a new socket while retries
\* has not passed the bound, and by DEAD only when it has.
C4_EveryCloseRetried ==
    [][\A c \in Sockets :
          (chans[c].readyState # "CLOSED" /\ chans'[c].readyState = "CLOSED") =>
              IF conns[chans[c].owner].retries <= RetryLimit
              THEN Len(chans') = Len(chans) + 1 /\ last'.notified = <<>>
              ELSE Len(chans') = Len(chans) /\ last'.notified = <<"DEAD">>]_vars

\* C5: once the reply to the auth request was falsy or absent, DEAD was
\* notified for it and no frame the server delivers on that socket makes
\* the client send anything.
C5_AuthFailureTerminal ==
    (last.kind = "message" /\ chans[last.chan].seen.authFail) =>
        /\ last.sent = <<>>
        /\ "DEAD" \in {chans[last.chan].notes[i] :
                          i \in 1..Len(chans[last.chan].notes)}

\* C6: in AUTH_SENT a {result: true} frame rebinds the socket to the
\* subscription handlers and sends exactly one system.state query; a
\* {result: false} frame sends nothing.
C6_AuthResult ==
    Delivered("wsAuthenticate") =>
        /\ last.frame = [result |-> JTrue] =>
              /\ chans[last.chan].onmessage = "wsAuthenticateCallback"
              /\ chans[last.chan].onclose = "wsAuthenticateCallback"
              /\ Len(last.sent) = 1 /\ IsQuery(last.sent[1])
              /\ Count(chans[last.chan].sent, "query") = 1
        /\ last.frame = [result |-> JFalse] =>
              /\ last.sent = <<>>
              /\ Count(chans[last.chan].sent, "query") = 0
              /\ chans[last.chan].onmessage = "wsAuthenticate"

C6_Witness ==
    /\ Delivered("wsAuthenticate")
    /\ last.frame = [result |-> JTrue]
    /\ Count(chans[last.chan].sent, "query") = 1

\* C7: a connected frame received in CONNECT_SENT stores its session field
\* as the token, and the frame sent next is the auth request with that
\* token as id and the api_key given to setupConnection as params.
C7_ConnectedThenAuth ==
    (/\ Delivered("serverStatusAPI")
     /\ Prop(last.frame, "msg") = "connected"
     /\ hasOwnProperty(last.frame, "session")) =>
        LET ws == chans[last.chan] IN
        /\ conns[LastOwner].session = last.frame.session
        /\ last.sent = <<[id |-> last.frame.session, msg |-> "method",
                          method |-> "auth.login_with_api_key",
                          params |-> <<hist[LastOwner].api_key>>]>>
        /\ ws.sent[Len(ws.sent)] = last.sent[1]
        /\ Count(ws.sent, "auth") = 1

C7_Witness ==
    /\ Delivered("serverStatusAPI")
    /\ last.frame = [msg |-> "connected", session |-> "s2"]
    /\ hist[LastOwner].api_key = "k2"
    /\ conns[LastOwner].retries > 0

\* C8: on every socket the connect frame is sent only after the open signal,
\* the auth request only after a connected frame, the query only after a
\* truthy result that followed it, the subscribe frame only after a
\* result-bearing frame that followed that.
C8_StagesSerialize ==
    \A c \in Sockets :
        LET ws == chans[c] IN
        /\ Count(ws.sent, "connect") > 0 => ws.seen.open
        /\ Count(ws.sent, "auth") > 0    => ws.seen.connected
        /\ Count(ws.sent, "query") > 0   => ws.seen.authOk
        /\ Count(ws.sent, "sub") > 0     => ws.seen.result
        /\ ws.readyState = "CONNECTING"  => ws.sent = <<>>

C8_Witness ==
    \E c \in Sockets :
        /\ chans[c].seen.result
        /\ Count(chans[c].sent, "sub") = 1
        /\ Len(chans[c].sent) = 4

\* C9: after authentication a frame with a result field is answered by one
\* notification of that result and then one subscribe frame for "system"
\* with the session token the socket was given.
C9_ResultThenSubscribe ==
    (Delivered("wsAuthenticateCallback") /\ hasOwnProperty(last.frame, "result")) =>
        /\ last.notified = <<last.frame.result>>
        /\ hostIcon.title = last.frame.result
        /\ last.sent = <<[id |-> chans[last.chan].seen.token,
                          name |-> "system", msg |-> "sub"]>>

C9_Witness ==
    /\ Delivered("wsAuthenticateCallback")
    /\ last.frame = [result |-> "READY"]
    /\ hostIcon.title = "READY"
    /\ Count(chans[last.chan].sent, "sub") = 1

\* C10: at most one subscribe frame is sent on any one socket.
C10_SubscribeOnce ==
    \A c \in Sockets : Count(chans[c].sent, "sub") <= 1

\* the number of DEAD statuses in a sequence of notified statuses
DeadIn(notes) == Cardinality({i \in 1..Len(notes) : notes[i] = "DEAD"})

\* socket c was opened by ws.onclose for a connection object that had a
\* socket before, and is still waiting for its connected frame
AwaitingReconnect(c) ==
    /\ chans[c].readyState # "CLOSED"
    /\ ~chans[c].seen.connected
    /\ \E b \in 1..(c - 1) : chans[b].owner = chans[c].owner

\* C11: after authentication a frame whose msg is "ready" and that has no
\* result field is answered by no notification and no frame.
C11_ReadyIgnored ==
    (/\ Delivered("wsAuthenticateCallback")
     /\ ~hasOwnProperty(last.frame, "result")
     /\ Prop(last.frame, "msg") = "ready") =>
        /\ last.notified = <<>>
        /\ last.sent = <<>>

C11_Witness ==
    /\ Delivered("wsAuthenticateCallback")
    /\ last.frame = [msg |-> "ready", id |-> "system"]
    /\ Count(chans[last.chan].sent, "sub") = 1
    /\ hostIcon.title = "READY"

\* C12: after authentication a frame without result whose msg is not "ready"
\* and whose id is a string is answered by exactly one notification, of the
\* id in upper case: "BOOTING" for "BOOTING", "SHUTTING_DOWN" for
\* "shutting_down".
C12_EventUppercased ==
    (/\ Delivered("wsAuthenticateCallback")
     /\ ~hasOwnProperty(last.frame, "result")
     /\ hasOwnProperty(last.frame, "msg")
     /\ last.frame.msg # "ready"
     /\ hasOwnProperty(last.frame, "id")
     /\ IsString(last.frame.id)) =>
        /\ Len(last.notified) = 1
        /\ hostIcon.title = last.notified[1]
        /\ last.frame.id = "BOOTING" => last.notified = <<"BOOTING">>
        /\ last.frame.id = "shutting_down" => last.notified = <<"SHUTTING_DOWN">>

C12_Witness ==
    /\ Delivered("wsAuthenticateCallback")
    /\ last.frame = [msg |-> "changed", id |-> "shutting_down"]
    /\ hostIcon.title = "SHUTTING_DOWN"
    /\ hostIcon.className = "fa fa-solid fa-arrow-circle-down"

\* C13: after authentication a "changed" frame without id (and without
\* result) is answered by no notification.
C13_NoIdNoNotification ==
    (/\ Delivered("wsAuthenticateCallback")
     /\ ~hasOwnProperty(last.frame, "result")
     /\ ~hasOwnProperty(last.frame, "id")
     /\ Prop(last.frame, "msg") = "changed") =>
        last.notified = <<>>

C13_Witness ==
    /\ Delivered("wsAuthenticateCallback")
    /\ last.frame = [msg |-> "changed"]
    /\ last.notified = <<>>
    /\ chans[last.chan].seen.result

\* C14: when the frames delivered on a socket are exactly those of the
\* scenario, the statuses notified are READY then SHUTTING_DOWN, and the
\* frames sent are connect, auth, query and subscribe, subscribe being last.
C14_EndToEnd ==
    \A c \in Sockets :
        chans[c].seen.script = Len(Scenario) =>
            /\ chans[c].notes = <<"READY", "SHUTTING_DOWN">>
            /\ chans[c].sent =
                 <<[msg |-> "connect", version |-> "1", support |-> <<"1">>],
                   [id |-> "s1", msg |-> "method",
                    method |-> "auth.login_with_api_key",
                    params |-> <<hist[chans[c].owner].api_key>>],
                   [id |-> "s1", msg |-> "method", method |-> "system.state"],
                   [id |-> "s1", name |-> "system", msg |-> "sub"]>>

C14_Witness ==
    /\ chans # <<>>
    /\ chans[1].seen.script = Len(Scenario)
    /\ hostIcon.title = "SHUTTING_DOWN"

\* C15: once ws.onclose has given up and notified DEAD, the connection
\* object has no socket that is not closed, so no socket is opened for it and
\* no frame is sent for it any more.
C15_DeadIsFinal ==
    \A s \in Sessions :
        hist[s].gaveUp =>
            \A c \in Sockets :
                chans[c].owner = s =>
                    chans[c].readyState = "CLOSED" /\ chans[c].sent = <<>>

C15_Witness ==
    \E s \in Sessions :
        /\ hist[s].gaveUp
        /\ hostIcon.title = "DEAD"
        /\ conns[s].retries = 0

\* C16: every auth, query and subscribe frame on a socket has an id, and it is
\* the non-empty session of the connected frame delivered on that socket.
C16_RequestsCarryToken ==
    \A c \in Sockets :
        \A i \in 1..Len(chans[c].sent) :
            KindOf(chans[c].sent[i]) # "connect" =>
                /\ hasOwnProperty(chans[c].sent[i], "id")
                /\ chans[c].sent[i].id = chans[c].seen.token
                /\ chans[c].sent[i].id # ""

C16_Witness ==
    \E c \in Sockets :
        /\ c > 1
        /\ hist[chans[c].owner].lastToken = "s1"
        /\ chans[c].seen.token = "s2"
        /\ Count(chans[c].sent, "sub") = 1

\* C17 as stated: from the reconnection until the new socket's connected
\* frame, the session token is empty.
C17_TokenClearedOnReconnect ==
    \A c \in Sockets :
        AwaitingReconnect(c) => conns[chans[c].owner].session = ""

\* C17 as amended: from the reconnection until the new socket's connected
\* frame, the same connection object still holds the non-empty token of the
\* socket that closed.
C17_TokenKeptOnReconnect ==
    \A c \in Sockets :
        AwaitingReconnect(c) =>
            /\ conns[chans[c].owner].session = hist[chans[c].owner].lastToken
            /\ conns[chans[c].owner].session # ""
            /\ conns[chans[c].owner].api_key = hist[chans[c].owner].api_key

C17_Witness ==
    \E c \in Sockets :
        /\ AwaitingReconnect(c)
        /\ chans[c].readyState = "OPEN"
        /\ chans[c].nrecv > 0
        /\ conns[chans[c].owner].session = "s2"

\* C18: after authentication a frame with neither result nor msg has no
\* effect: nothing sent, nothing notified, token and retries as before.
C18_UnclassifiedNoEffect ==
    (/\ Delivered("wsAuthenticateCallback")
     /\ ~hasOwnProperty(last.frame, "result")
     /\ ~hasOwnProperty(last.frame, "msg")) =>
        /\ last.sent = <<>>
        /\ last.notified = <<>>
        /\ conns[LastOwner].session = chans[last.chan].seen.token
        /\ conns[LastOwner].retries = hist[LastOwner].resetFrom

\* C19: the handlers of one socket notify DEAD at most once, its close
\* event included.
C19_DeadAtMostOnce ==
    [][\A c \in Sockets :
          DeadIn(chans[c].notes)
            + (IF last'.chan = c THEN DeadIn(last'.notified) ELSE 0) <= 1]_vars

\* C20: every status passed to updateStatusIcon is READY, BOOTING,
\* SHUTTING_DOWN, ERROR, DEAD or an event id in upper case.
C20_StatusTags ==
    \A i \in 1..Len(last.notified) :
        last.notified[i] \in {"READY", "BOOTING", "SHUTTING_DOWN", "ERROR",
                              "DEAD", "SYSTEM"}

\* a close event on socket c is handled in this step
Closing(c) ==
    chans[c].readyState # "CLOSED" /\ chans'[c].readyState = "CLOSED"

\* the sockets of connection object s that are not closed
LiveSockets(s) ==
    {c \in Sockets : chans[c].owner = s /\ chans[c].readyState # "CLOSED"}

\* C22: the close events of a connection object with no frame handled after
\* authentication in between number at most five, so the sockets opened in
\* answer are bounded; a close event before authentication is answered by
\* DEAD, and from that DEAD on the connection object has no socket that is
\* not closed, so none is opened for it afterwards.
C22_NoReconnectStorm ==
    \A s \in Sessions :
        /\ hist[s].closes <= RetryLimit + 2
        /\ (ClosedBy("serverStatusAPI") /\ LastOwner = s) =>
               last.notified = <<"DEAD">> /\ hist[s].deads >= 1
        /\ hist[s].deads >= 1 =>
               LiveSockets(s) = {} /\ hostIcon.title = "DEAD"

C22_Witness ==
    /\ ClosedBy("serverStatusAPI")
    /\ last.chan = 2
    /\ hist[LastOwner].closes = 2
    /\ conns[LastOwner].retries = 1
    /\ LiveSockets(LastOwner) = {}

\* C23: a close event on a socket on which no truthy result has followed the
\* connected frame (none yet, or the auth reply was falsy) notifies DEAD,
\* opens no socket and leaves the connection object as it was; a socket is
\* opened by a close event only when the closing socket was authenticated.
C23_RetryOnlyAfterAuth ==
    [][\A c \in Sockets :
          Closing(c) =>
              /\ ~chans[c].seen.authOk =>
                    /\ last'.notified = <<"DEAD">>
                    /\ hostIcon'.title = "DEAD"
                    /\ Len(chans') = Len(chans)
                    /\ conns' = conns
              /\ Len(chans') > Len(chans) => chans[c].seen.authOk]_vars

C23_Witness ==
    /\ ClosedBy("serverStatusAPI")
    /\ last.chan = 3
    /\ conns[LastOwner].retries = 2
    /\ conns[LastOwner].session = "s2"
    /\ Len(chans) = 3

C25_OtherFramesIgnored ==
    [][\A c \in Sockets :
          (/\ chans[c].readyState = "OPEN"
           /\ chans'[c].nrecv = chans[c].nrecv + 1) =>
              /\ (/\ ~chans[c].seen.connected
                  /\ Prop(last'.frame, "msg") # "connected") =>
                     /\ conns' = conns
                     /\ chans'[c].sent = chans[c].sent
                     /\ last'.notified = <<>>
                     /\ hostIcon' = hostIcon
                     /\ chans'[c].onmessage = chans[c].onmessage
                     /\ chans'[c].onclose = chans[c].onclose
                     /\ ~chans'[c].seen.connected
              /\ Count(chans'[c].sent, "auth") > Count(chans[c].sent, "auth") =>
                     Prop(last'.frame, "msg") = "connected"]_vars

C25_Witness ==
    /\ Delivered("serverStatusAPI")
    /\ last.frame = [msg |-> "changed", id |-> "shutting_down"]
    /\ last.chan = 2
    /\ conns[LastOwner].session = "s1"
    /\ ~chans[last.chan].seen.connected
    /\ chans[last.chan].sent = <<ConnectFrame>>

\* C26: a connection object never has two sockets that are not closed, and
\* a socket is opened for it only by setupConnection or in the step that
\* handles the close event of its one socket.
C26_OneChannel ==
    [][/\ \A s \in 1..Len(conns') :
             Cardinality({c \in 1..Len(chans') :
                            /\ chans'[c].owner = s
                            /\ chans'[c].readyState # "CLOSED"}) <= 1
       /\ (Len(chans') > Len(chans) /\ last'.kind # "setup") =>
             /\ Len(chans') = Len(chans) + 1
             /\ \E c \in Sockets :
                    /\ Closing(c)
                    /\ LiveSockets(chans[c].owner) = {c}
                    /\ chans'[Len(chans')].owner = chans[c].owner]_vars

C26_Witness ==
    /\ Len(chans) = 3
    /\ LiveSockets(1) = {3}
    /\ chans[3].seen.authOk
    /\ conns[1].retries = 2

\* C27: whenever DEAD is notified, retries of the connection object is 0.
C27_DeadWithZeroRetries ==
    DeadIn(last.notified) > 0 => conns[LastOwner].retries = 0

\* C28: a close event of a socket that was delivered a frame after its
\* authentication finds retries at 0, is answered by one new socket and no
\* DEAD, and leaves retries at 1: such closes never use up the retries.
C28_FedChannelsReconnect ==
    [][\A c \in Sockets :
          (Closing(c) /\ chans[c].seen.fed) =>
              /\ conns[chans[c].owner].retries = 0
              /\ conns'[chans[c].owner].retries = 1
              /\ Len(chans') = Len(chans) + 1
              /\ chans'[Len(chans')].owner = chans[c].owner
              /\ last'.notified = <<>>]_vars

C28_Witness ==
    /\ ClosedBy("wsAuthenticateCallback")
    /\ last.notified = <<>>
    /\ last.chan = 5
    /\ hist[LastOwner].closes = 1
    /\ hist[LastOwner].resetFrom = 1
    /\ conns[LastOwner].retries = 1

\* C21: with two connection objects, an open, message or close event on a
\* socket of one leaves the other connection object (its session and its
\* retries) as it was, and retries of a connection object goes up only in a
\* step that handles a close event of its own socket.
C21_SessionsIsolated ==
    [][\A s \in Sessions :
          /\ chans'[last'.chan].owner # s => conns'[s] = conns[s]
          /\ conns'[s].retries > conns[s].retries =>
                \E c \in Sockets : Closing(c) /\ chans[c].owner = s]_vars

C21_Witness ==
    /\ Len(chans) = 3
    /\ chans[3].owner = 2
    /\ conns[1].session = "s1" /\ conns[2].session = "s2"
    /\ conns[1].retries = 0 /\ hist[1].resetFrom = 0
    /\ chans[1].seen.fed
    /\ conns[2].retries = 1
    /\ Delivered("wsAuthenticate") /\ last.chan = 3

\* C29: after the success callback of pollConsoleStatus, the controller
\* element is marked disconnected exactly when the response's alive was
\* false; updateStatusIcon was called (READY for alive, DEAD otherwise, once)
\* only when the mark found disagreed with alive, and nothing otherwise; one
\* timeout, and no request, is pending, and each success adds one timeout.
C29_PollOutcome ==
    [][poll'.event.kind = "success" =>
          LET alive == poll'.event.result.alive = JTrue IN
          /\ poll'.icon.disconnected = ~alive
          /\ poll'.event.before = poll.icon.disconnected
          /\ poll'.event.notified =
                IF poll.icon.disconnected = alive
                THEN <<IF alive THEN "READY" ELSE "DEAD">>
                ELSE <<>>
          /\ poll'.event.notified = <<>> => poll'.icon = poll.icon
          /\ poll'.timers = poll.timers + 1
          /\ poll'.timers = 1 /\ poll'.inflight = 0]_vars

C29_Witness ==
    /\ poll.event.kind = "success"
    /\ poll.event.result = [alive |-> JFalse]
    /\ poll.event.before = FALSE
    /\ poll.icon = updateStatusIcon("DEAD")
    /\ poll.issued = 3
    /\ poll.timers = 1

\* C30: cntAttempts never exceeds 16; a chain of status requests that began
\* with cntAttempts = 0 and was answered 200 with status 2 every time issues
\* at most 17 requests, and when it has finished cntAttempts is 0 until the
\* next chain begins.
C30_CalibrationBounded ==
    /\ cal.cntAttempts <= AttemptsLimit + 1
    /\ \A fanId \in Fans :
          LET chain == cal.chain[fanId] IN
          (chain.fromZero /\ chain.clean) =>
              /\ chain.requests <= AttemptsLimit + 2
              /\ (chain.finished /\ \A g \in Fans : cal.chain[g].phase = "idle")
                    => cal.cntAttempts = 0

\* C31: a drag on a strictly increasing pwm leaves it strictly increasing:
\* the value is written at index exactly when it is greater than the entry
\* before it (if any) and less than the entry after it (if any), only that
\* entry changes, and a rejected drag leaves pwm as it was.
C31_DragKeepsIncreasing ==
    [][(chart'.event.kind = "drag" /\ StrictlyIncreasing(chart.pwm)) =>
          LET i == chart'.event.index + 1
              v == chart'.event.value
              fits == /\ (i > 1 => chart.pwm[i - 1] < v)
                      /\ (i < Len(chart.pwm) => v < chart.pwm[i + 1])
          IN /\ StrictlyIncreasing(chart'.pwm)
             /\ chart'.event.written = fits
             /\ chart'.pwm = IF fits THEN [chart.pwm EXCEPT ![i] = v]
                                     ELSE chart.pwm
             /\ chart'.temp = chart.temp]_vars

C31_Witness ==
    /\ chart.event = ChartEvent("drag", 1, 2, TRUE)
    /\ chart.pwm = <<0, 2, 3>>

====
